---- MODULE Spec2Model ----
(***************************************************************************)
(* Model of the feedback collection system of the meeting-usefulness      *)
(* application (class FeedbackCollection): the in-memory feedback store,  *)
(* its operations, the aggregation of survey responses per recurring      *)
(* meeting and the threshold rules that turn an aggregate into            *)
(* improvement suggestions.                                               *)
(*                                                                         *)
(* JavaScript values are encoded as follows.                               *)
(*   - undefined and null are the strings "undefined" and "null" wherever *)
(*     a string-valued slot may hold them (identifiers, option answers).  *)
(*   - a meeting's id is a record [type, value, recurringMeetingId]: type *)
(*     is the JavaScript type of the value ("undefined", "null", "string",*)
(*     "object"); for an object, recurringMeetingId is the value of that  *)
(*     property.                                                           *)
(*   - a rate (a JavaScript double obtained by one division of two small  *)
(*     integers) is the exact fraction [num, den]; comparisons with the   *)
(*     decimal thresholds are made by cross-multiplication.  IEEE-754     *)
(*     division is correctly rounded, so for the small integers of this   *)
(*     model count/total compares with 0.5, 0.6, ... exactly as the       *)
(*     fractions do (3/5 is the double 0.6).                               *)
(***************************************************************************)
EXTENDS Integers, Sequences, FiniteSets, TLC

\* Bounds of the model: the store holds at most MaxRecords records and at
\* most MaxResponses responses over all records.
MaxRecords == 2
MaxResponses == 2

Undefined == "undefined"
Null == "null"

\* The value of a property that ++ was applied to while it was undefined.
NaN == -1

VARIABLES
  feedbackDatabase,   \* this.feedbackDatabase: the sequence of feedback records
  surveyTemplates,    \* this.surveyTemplates: the keys of the template table
  call,               \* the most recent call: operation, arguments, return value
  aggregation         \* the locals of a getAggregatedFeedback call that is followed
                      \* statement by statement

vars == <<feedbackDatabase, surveyTemplates, call, aggregation>>

\* No getAggregatedFeedback call is being followed.
NotAggregating == [pc |-> "idle"]

----------------------------------------------------------------------------
(* Input domains *)

UndefinedValue == [type |-> "undefined", value |-> "", recurringMeetingId |-> Undefined]
NullValue == [type |-> "null", value |-> "", recurringMeetingId |-> Undefined]
StringValue(s) == [type |-> "string", value |-> s, recurringMeetingId |-> Undefined]
ObjectValue(r) == [type |-> "object", value |-> "", recurringMeetingId |-> r]

\* Meetings handed to scheduleFeedback: a meeting as the calendar
\* integration returns it (its id is a string, the series is a property of
\* the meeting), a meeting without id, and meetings whose id is an object
\* that carries the recurring series.
Meetings ==
  { [id |-> StringValue("meeting-1"), title |-> "Weekly Team Sync",
     recurringMeetingId |-> "rec-123"],
    [id |-> UndefinedValue, title |-> "Ad hoc", recurringMeetingId |-> Null],
    [id |-> ObjectValue("rec-123"), title |-> "Weekly Team Sync",
     recurringMeetingId |-> "rec-123"],
    [id |-> ObjectValue("rec-456"), title |-> "Sprint Review",
     recurringMeetingId |-> "rec-456"] }

\* Identifiers getAggregatedFeedback is called with.
RecurringMeetingIds == {Undefined, Null, "rec-123", "rec-456"}

TemplateNames == {"standard", "retro"}

LengthOptions == {"Too short", "Just right", "Too long"}

\* The responses argument of submitFeedback: null, or an object of answers.
\* A boolean answer that is absent is falsy; participation is <<>> when
\* absent and <<n>> when supplied; meeting_length is Undefined when absent.
NullData ==
  [isNull |-> TRUE, decision_made |-> FALSE, action_items |-> FALSE,
   participation |-> <<>>, could_be_async |-> FALSE, meeting_length |-> Undefined]
Answers(d, a, p, c, l) ==
  [isNull |-> FALSE, decision_made |-> d, action_items |-> a,
   participation |-> p, could_be_async |-> c, meeting_length |-> l]

ResponseData ==
  { NullData,
    Answers(TRUE, FALSE, <<80>>, TRUE, "Too long"),
    Answers(FALSE, TRUE, <<>>, FALSE, Undefined),
    Answers(TRUE, TRUE, <<20>>, FALSE, "Too short"),
    Answers(FALSE, FALSE, <<150>>, TRUE, "Way too long") }

----------------------------------------------------------------------------
(* JavaScript helpers *)

\* Truthiness of a meeting id value.
Truthy(v) == v.type \in {"object"} \/ (v.type = "string" /\ v.value # "")

\* v.recurringMeetingId for a truthy v: a string has no such property.
RecurringMeetingIdOf(v) ==
  IF v.type = "object" THEN v.recurringMeetingId ELSE Undefined

\* templateName.toLowerCase()
ToLowerCase(s) ==
  CASE s = "Standard" -> "standard"
    [] s = "Brief" -> "brief"
    [] s = "Detailed" -> "detailed"
    [] s = "Retro" -> "retro"
    [] OTHER -> s

\* a/b < n/d and a/b > n/d for a fraction r = [num |-> a, den |-> b], b, d > 0
Less(r, n, d) == r.num * d < n * r.den
Greater(r, n, d) == r.num * d > n * r.den

----------------------------------------------------------------------------
(* The store *)

TotalStored(db) ==
  LET RECURSIVE Sum(_)
      Sum(i) == IF i = 0 THEN 0 ELSE Len(db[i].responses) + Sum(i - 1)
  IN Sum(Len(db))

Init ==
  /\ feedbackDatabase = <<>>
  /\ surveyTemplates = {}
  /\ aggregation = NotAggregating
  /\ call = [op |-> "constructor", recurringMeetingId |-> Undefined,
             aggregated |-> [type |-> "null"], suggestions |-> <<>>,
             returned |-> Undefined, caught |-> FALSE, raised |-> FALSE]

----------------------------------------------------------------------------
(* getAggregatedFeedback *)

\* IsFeedbackItem without the comparison of the recurring meeting id.
IsFeedbackItemAnySeries(fb, recurringMeetingId) ==
  /\ Truthy(fb.meetingId)
  /\ fb.status = "completed"
  /\ Len(fb.responses) > 0

\* The filter predicate of getAggregatedFeedback.
IsFeedbackItem(fb, recurringMeetingId) ==
  /\ Truthy(fb.meetingId)
  /\ RecurringMeetingIdOf(fb.meetingId) = recurringMeetingId
  /\ fb.status = "completed"
  /\ Len(fb.responses) > 0

FeedbackItems(db, recurringMeetingId) ==
  SelectSeq(db, LAMBDA fb : IsFeedbackItem(fb, recurringMeetingId))

\* aggregated.lengthRatings[key]++ : a key that is not yet a property is
\* created with the value NaN, and NaN stays NaN.
IncrementRating(lengthRatings, key) ==
  [k \in (DOMAIN lengthRatings) \cup {key} |->
     IF k # key THEN lengthRatings[k]
     ELSE IF key \in DOMAIN lengthRatings /\ lengthRatings[key] # NaN
          THEN lengthRatings[key] + 1
          ELSE NaN]

\* The accumulators before the first response.
InitialCounts ==
  [totalResponses |-> 0, decisionCount |-> 0, actionItemsCount |-> 0,
   participationSum |-> 0, asyncCount |-> 0,
   lengthRatings |-> [k \in LengthOptions |-> 0], threw |-> FALSE]

\* ProcessResponse with participationSum assigned (=) instead of added (+=).
ProcessResponseAssignsParticipation(acc, response) ==
  IF acc.threw THEN acc
  ELSE IF response.data.isNull
  THEN [acc EXCEPT !.totalResponses = @ + 1, !.threw = TRUE]
  ELSE [acc EXCEPT
          !.totalResponses = @ + 1,
          !.decisionCount = IF response.data.decision_made THEN @ + 1 ELSE @,
          !.actionItemsCount = IF response.data.action_items THEN @ + 1 ELSE @,
          !.participationSum =
             IF response.data.participation # <<>> /\ response.data.participation[1] # 0
             THEN response.data.participation[1] ELSE @,
          !.asyncCount = IF response.data.could_be_async THEN @ + 1 ELSE @,
          !.lengthRatings =
             IF response.data.meeting_length # Undefined
             THEN IncrementRating(@, response.data.meeting_length) ELSE @]

\* The body of the inner forEach for one response.  Reading a property of
\* response.data throws a TypeError when data is null; nothing after the
\* throw is executed.
ProcessResponse(acc, response) ==
  IF acc.threw THEN acc
  ELSE IF response.data.isNull
  THEN [acc EXCEPT !.totalResponses = @ + 1, !.threw = TRUE]
  ELSE [acc EXCEPT
          !.totalResponses = @ + 1,
          !.decisionCount = IF response.data.decision_made THEN @ + 1 ELSE @,
          !.actionItemsCount = IF response.data.action_items THEN @ + 1 ELSE @,
          !.participationSum =
             IF response.data.participation # <<>> /\ response.data.participation[1] # 0
             THEN @ + response.data.participation[1] ELSE @,
          !.asyncCount = IF response.data.could_be_async THEN @ + 1 ELSE @,
          !.lengthRatings =
             IF response.data.meeting_length # Undefined
             THEN IncrementRating(@, response.data.meeting_length) ELSE @]

\* ProcessResponses that reads the latest response of a record only.
ProcessLatestResponseOnly(acc, responses) ==
  IF responses = <<>> THEN acc
  ELSE ProcessResponse(acc, responses[Len(responses)])

\* feedback.responses.forEach(...), in the order of the responses.
RECURSIVE ProcessResponses(_, _)
ProcessResponses(acc, responses) ==
  IF responses = <<>> THEN acc
  ELSE ProcessResponses(ProcessResponse(acc, Head(responses)), Tail(responses))

\* feedbackItems.forEach(...), in the order of the store.
RECURSIVE ProcessFeedbackItems(_, _)
ProcessFeedbackItems(acc, items) ==
  IF items = <<>> THEN acc
  ELSE ProcessFeedbackItems(ProcessResponses(acc, Head(items).responses), Tail(items))

\* CalculateRates with couldBeAsyncRate computed from actionItemsCount.
CalculateRatesAsyncFromActionItems(recurringMeetingId, meetingTitle, acc) ==
  LET total == acc.totalResponses
      Rate(count) == IF total > 0 THEN [num |-> count, den |-> total]
                     ELSE [num |-> 0, den |-> 1]
  IN [type |-> "object",
      recurringMeetingId |-> recurringMeetingId,
      meetingTitle |-> meetingTitle,
      totalResponses |-> total,
      decisionsRate |-> Rate(acc.decisionCount),
      actionItemsRate |-> Rate(acc.actionItemsCount),
      averageParticipation |-> Rate(acc.participationSum),
      couldBeAsyncRate |-> Rate(acc.actionItemsCount),
      lengthRatings |-> acc.lengthRatings]

\* CalculateRates with averageParticipation left as the sum (no division).
CalculateRatesParticipationNotAveraged(recurringMeetingId, meetingTitle, acc) ==
  LET total == acc.totalResponses
      Rate(count) == IF total > 0 THEN [num |-> count, den |-> total]
                     ELSE [num |-> 0, den |-> 1]
  IN [type |-> "object",
      recurringMeetingId |-> recurringMeetingId,
      meetingTitle |-> meetingTitle,
      totalResponses |-> total,
      decisionsRate |-> Rate(acc.decisionCount),
      actionItemsRate |-> Rate(acc.actionItemsCount),
      averageParticipation |-> [num |-> acc.participationSum, den |-> 1],
      couldBeAsyncRate |-> Rate(acc.asyncCount),
      lengthRatings |-> acc.lengthRatings]

\* The rates computed after the pass.
CalculateRates(recurringMeetingId, meetingTitle, acc) ==
  LET total == acc.totalResponses
      Rate(count) == IF total > 0 THEN [num |-> count, den |-> total]
                     ELSE [num |-> 0, den |-> 1]
  IN [type |-> "object",
      recurringMeetingId |-> recurringMeetingId,
      meetingTitle |-> meetingTitle,
      totalResponses |-> total,
      decisionsRate |-> Rate(acc.decisionCount),
      actionItemsRate |-> Rate(acc.actionItemsCount),
      averageParticipation |-> Rate(acc.participationSum),
      couldBeAsyncRate |-> Rate(acc.asyncCount),
      lengthRatings |-> acc.lengthRatings]

\* GetAggregatedFeedbackResult without its try/catch: the TypeError leaves
\* the method.
GetAggregatedFeedbackResultWithoutCatch(db, recurringMeetingId) ==
  LET feedbackItems == FeedbackItems(db, recurringMeetingId)
      acc == ProcessFeedbackItems(InitialCounts, feedbackItems)
  IN IF Len(feedbackItems) = 0
     THEN [value |-> [type |-> "null"], caught |-> FALSE, raised |-> FALSE]
     ELSE IF acc.threw
     THEN [value |-> [type |-> "null"], caught |-> FALSE, raised |-> TRUE]
     ELSE [value |-> CalculateRates(recurringMeetingId, feedbackItems[1].meetingTitle, acc),
           caught |-> FALSE, raised |-> FALSE]

\* The whole method: [value, caught, raised].  value is the returned
\* aggregate or [type |-> "null"]; caught tells that the catch block ran;
\* raised tells that an exception left the method.
GetAggregatedFeedbackResult(db, recurringMeetingId) ==
  LET feedbackItems == FeedbackItems(db, recurringMeetingId)
      acc == ProcessFeedbackItems(InitialCounts, feedbackItems)
  IN IF Len(feedbackItems) = 0
     THEN [value |-> [type |-> "null"], caught |-> FALSE, raised |-> FALSE]
     ELSE IF acc.threw
     THEN [value |-> [type |-> "null"], caught |-> TRUE, raised |-> FALSE]
     ELSE [value |-> CalculateRates(recurringMeetingId, feedbackItems[1].meetingTitle, acc),
           caught |-> FALSE, raised |-> FALSE]

----------------------------------------------------------------------------
(* generateImprovementSuggestions *)

Suggestion(area, text, priority) ==
  [area |-> area, suggestion |-> text, priority |-> priority]

\* DecisionMakingRule with the threshold included (<= 0.5).
DecisionMakingRuleNonStrict(aggregatedFeedback) ==
  IF ~Greater(aggregatedFeedback.decisionsRate, 5, 10)
  THEN << Suggestion("Decision Making",
            "Include specific decision points in the meeting agenda and ensure they are addressed",
            IF Less(aggregatedFeedback.decisionsRate, 2, 10) THEN "high" ELSE "medium") >>
  ELSE << >>

\* Decision-making suggestions
DecisionMakingRule(aggregatedFeedback) ==
  IF Less(aggregatedFeedback.decisionsRate, 5, 10)
  THEN << Suggestion("Decision Making",
            "Include specific decision points in the meeting agenda and ensure they are addressed",
            IF Less(aggregatedFeedback.decisionsRate, 2, 10) THEN "high" ELSE "medium") >>
  ELSE << >>

\* Action items suggestions
ActionItemsRule(aggregatedFeedback) ==
  IF Less(aggregatedFeedback.actionItemsRate, 6, 10)
  THEN << Suggestion("Action Items",
            "End each meeting with clear action items assigned to specific individuals",
            IF Less(aggregatedFeedback.actionItemsRate, 3, 10) THEN "high" ELSE "medium") >>
  ELSE << >>

\* ParticipationRule with the priority cut included (<= 30 is high).
ParticipationRuleHighAtCut(aggregatedFeedback) ==
  IF Less(aggregatedFeedback.averageParticipation, 50, 1)
  THEN << Suggestion("Participation",
            "Consider reducing the number of participants or use round-robin techniques to ensure everyone contributes",
            IF ~Greater(aggregatedFeedback.averageParticipation, 30, 1) THEN "high" ELSE "medium") >>
  ELSE << >>

\* Participation suggestions
ParticipationRule(aggregatedFeedback) ==
  IF Less(aggregatedFeedback.averageParticipation, 50, 1)
  THEN << Suggestion("Participation",
            "Consider reducing the number of participants or use round-robin techniques to ensure everyone contributes",
            IF Less(aggregatedFeedback.averageParticipation, 30, 1) THEN "high" ELSE "medium") >>
  ELSE << >>

\* Async conversion suggestions
MeetingFormatRule(aggregatedFeedback) ==
  IF Greater(aggregatedFeedback.couldBeAsyncRate, 6, 10)
  THEN << Suggestion("Meeting Format",
            "Convert this recurring meeting to an asynchronous format using tools like shared documents or structured chat threads",
            IF Greater(aggregatedFeedback.couldBeAsyncRate, 8, 10) THEN "high" ELSE "medium") >>
  ELSE << >>

\* MeetingLengthRule with two independent ifs instead of if / else if.
MeetingLengthRuleBoth(aggregatedFeedback) ==
  (IF 2 * aggregatedFeedback.lengthRatings["Too long"] > aggregatedFeedback.totalResponses
   THEN << Suggestion("Meeting Length",
             "Reduce the meeting duration and create a more focused agenda", "high") >>
   ELSE << >>)
  \o
  (IF 2 * aggregatedFeedback.lengthRatings["Too short"] > aggregatedFeedback.totalResponses
   THEN << Suggestion("Meeting Length",
             "Consider allocating more time to allow for more thorough discussion", "medium") >>
   ELSE << >>)

\* Meeting length suggestions: count > totalResponses * 0.5
MeetingLengthRule(aggregatedFeedback) ==
  IF 2 * aggregatedFeedback.lengthRatings["Too long"] > aggregatedFeedback.totalResponses
  THEN << Suggestion("Meeting Length",
            "Reduce the meeting duration and create a more focused agenda", "high") >>
  ELSE IF 2 * aggregatedFeedback.lengthRatings["Too short"] > aggregatedFeedback.totalResponses
  THEN << Suggestion("Meeting Length",
            "Consider allocating more time to allow for more thorough discussion", "medium") >>
  ELSE << >>

\* generateImprovementSuggestions with the length rule evaluated first.
GenerateLengthFirst(aggregatedFeedback) ==
  IF aggregatedFeedback.type = "null" \/ aggregatedFeedback.totalResponses = 0
  THEN << >>
  ELSE MeetingLengthRule(aggregatedFeedback)
       \o DecisionMakingRule(aggregatedFeedback)
       \o ActionItemsRule(aggregatedFeedback)
       \o ParticipationRule(aggregatedFeedback)
       \o MeetingFormatRule(aggregatedFeedback)

\* generateImprovementSuggestions without the totalResponses === 0 test.
GenerateWithoutZeroTest(aggregatedFeedback) ==
  IF aggregatedFeedback.type = "null"
  THEN << >>
  ELSE DecisionMakingRule(aggregatedFeedback)
       \o ActionItemsRule(aggregatedFeedback)
       \o ParticipationRule(aggregatedFeedback)
       \o MeetingFormatRule(aggregatedFeedback)
       \o MeetingLengthRule(aggregatedFeedback)

GenerateImprovementSuggestionsResult(aggregatedFeedback) ==
  IF aggregatedFeedback.type = "null" \/ aggregatedFeedback.totalResponses = 0
  THEN << >>
  ELSE DecisionMakingRule(aggregatedFeedback)
       \o ActionItemsRule(aggregatedFeedback)
       \o ParticipationRule(aggregatedFeedback)
       \o MeetingFormatRule(aggregatedFeedback)
       \o MeetingLengthRule(aggregatedFeedback)

\* generateImprovementSuggestions has no try/catch: it raises a TypeError
\* when it reads lengthRatings['Too long'] of an aggregate that is truthy,
\* has totalResponses other than 0 and has no lengthRatings.
GenerateImprovementSuggestionsRaises(aggregatedFeedback) ==
  /\ aggregatedFeedback.type # "null"
  /\ aggregatedFeedback.totalResponses # 0
  /\ "lengthRatings" \notin DOMAIN aggregatedFeedback

----------------------------------------------------------------------------
(* The operations of the store *)

Returned(op, value) ==
  [op |-> op, recurringMeetingId |-> Undefined, aggregated |-> [type |-> "null"],
   suggestions |-> <<>>, returned |-> value, caught |-> FALSE, raised |-> FALSE]

\* initialize(): installs the default templates.
Initialize ==
  /\ surveyTemplates' = surveyTemplates \cup {"standard", "brief", "detailed"}
  /\ call' = Returned("initialize", "true")
  /\ UNCHANGED <<feedbackDatabase, aggregation>>

\* scheduleFeedback(meeting, templateName): appends a scheduled record, or
\* returns null when the template is unknown.
ScheduleFeedback(meeting, templateName) ==
  /\ IF ToLowerCase(templateName) \in surveyTemplates
     THEN /\ Len(feedbackDatabase) < MaxRecords
          /\ feedbackDatabase' = Append(feedbackDatabase,
                [id |-> Len(feedbackDatabase) + 1,
                 meetingId |-> IF Truthy(meeting.id) THEN meeting.id ELSE NullValue,
                 meetingTitle |-> meeting.title,
                 template |-> templateName,
                 status |-> "scheduled",
                 responses |-> <<>>])
          /\ call' = Returned("scheduleFeedback", "object")
     ELSE /\ call' = [Returned("scheduleFeedback", Null) EXCEPT !.caught = TRUE]
          /\ UNCHANGED feedbackDatabase
  /\ UNCHANGED <<surveyTemplates, aggregation>>

\* FindIndex that gives the last record when none has the id.
FindIndexOrLast(db, feedbackId) ==
  IF \E i \in 1..Len(db) : db[i].id = feedbackId
  THEN CHOOSE i \in 1..Len(db) :
         /\ db[i].id = feedbackId
         /\ \A j \in 1..(i - 1) : db[j].id # feedbackId
  ELSE Len(db)

\* findIndex(fb => fb.id === feedbackId): 0 stands for -1 (sequences start at 1)
FindIndex(db, feedbackId) ==
  IF \E i \in 1..Len(db) : db[i].id = feedbackId
  THEN CHOOSE i \in 1..Len(db) :
         /\ db[i].id = feedbackId
         /\ \A j \in 1..(i - 1) : db[j].id # feedbackId
  ELSE 0

\* SubmitFeedback that overwrites the responses of the record with the new
\* one.
SubmitFeedbackReplacing(feedbackId, responses) ==
  /\ LET feedbackIndex == FindIndex(feedbackDatabase, feedbackId)
     IN IF feedbackIndex = 0
        THEN /\ call' = [Returned("submitFeedback", "false") EXCEPT !.caught = TRUE]
             /\ UNCHANGED feedbackDatabase
        ELSE /\ TotalStored(feedbackDatabase) < MaxResponses
             /\ feedbackDatabase' =
                  [feedbackDatabase EXCEPT
                     ![feedbackIndex].responses = <<[data |-> responses]>>,
                     ![feedbackIndex].status = "completed"]
             /\ call' = Returned("submitFeedback", "true")
  /\ UNCHANGED <<surveyTemplates, aggregation>>

\* submitFeedback(feedbackId, responses)
SubmitFeedback(feedbackId, responses) ==
  /\ LET feedbackIndex == FindIndex(feedbackDatabase, feedbackId)
     IN IF feedbackIndex = 0
        THEN /\ call' = [Returned("submitFeedback", "false") EXCEPT !.caught = TRUE]
             /\ UNCHANGED feedbackDatabase
        ELSE /\ TotalStored(feedbackDatabase) < MaxResponses
             /\ feedbackDatabase' =
                  [feedbackDatabase EXCEPT
                     ![feedbackIndex].responses = Append(@, [data |-> responses]),
                     ![feedbackIndex].status = "completed"]
             /\ call' = Returned("submitFeedback", "true")
  /\ UNCHANGED <<surveyTemplates, aggregation>>

\* GetAggregatedFeedback that takes the records it aggregated out of the
\* store.
GetAggregatedFeedbackConsuming(recurringMeetingId) ==
  /\ LET r == GetAggregatedFeedbackResult(feedbackDatabase, recurringMeetingId)
     IN call' = [op |-> "getAggregatedFeedback",
                 recurringMeetingId |-> recurringMeetingId,
                 aggregated |-> r.value, suggestions |-> <<>>,
                 returned |-> r.value.type, caught |-> r.caught, raised |-> r.raised]
  /\ feedbackDatabase' =
       SelectSeq(feedbackDatabase, LAMBDA fb : ~IsFeedbackItem(fb, recurringMeetingId))
  /\ UNCHANGED <<surveyTemplates, aggregation>>

\* getAggregatedFeedback(recurringMeetingId)
GetAggregatedFeedback(recurringMeetingId) ==
  /\ LET r == GetAggregatedFeedbackResult(feedbackDatabase, recurringMeetingId)
     IN call' = [op |-> "getAggregatedFeedback",
                 recurringMeetingId |-> recurringMeetingId,
                 aggregated |-> r.value, suggestions |-> <<>>,
                 returned |-> r.value.type, caught |-> r.caught, raised |-> r.raised]
  /\ UNCHANGED <<feedbackDatabase, surveyTemplates, aggregation>>

\* generateImprovementSuggestions(aggregatedFeedback), called on the value
\* the preceding getAggregatedFeedback returned or on an aggregate the
\* caller holds.
GenerateImprovementSuggestions ==
  /\ call.op \in {"getAggregatedFeedback", "aggregatedFeedback"}
  /\ ~call.raised
  /\ call' = IF GenerateImprovementSuggestionsRaises(call.aggregated)
             THEN [call EXCEPT !.op = "generateImprovementSuggestions",
                               !.returned = Undefined, !.caught = FALSE, !.raised = TRUE]
             ELSE [call EXCEPT !.op = "generateImprovementSuggestions",
                               !.suggestions = GenerateImprovementSuggestionsResult(call.aggregated),
                               !.returned = "array", !.caught = FALSE, !.raised = FALSE]
  /\ UNCHANGED <<feedbackDatabase, surveyTemplates, aggregation>>

Next ==
  \/ Initialize
  \/ \E meeting \in Meetings, templateName \in TemplateNames :
       ScheduleFeedback(meeting, templateName)
  \/ \E feedbackId \in 1..MaxRecords, responses \in ResponseData :
       SubmitFeedback(feedbackId, responses)
  \/ \E recurringMeetingId \in RecurringMeetingIds :
       GetAggregatedFeedback(recurringMeetingId)
  \/ GenerateImprovementSuggestions

Spec == Init /\ [][Next]_vars

----------------------------------------------------------------------------
(* generateImprovementSuggestions as a function of its argument *)

Tenths(n) == [num |-> n, den |-> 10]
Whole(n) == [num |-> n, den |-> 1]

\* Aggregates a caller holds: null, and objects whose fields lie below, on
\* and above each threshold of the rules, in every combination.
AggregatedInputs ==
  { [type |-> "null"] } \cup
  { [type |-> "object", recurringMeetingId |-> "rec-123",
     meetingTitle |-> "Weekly Team Sync",
     totalResponses |-> total,
     decisionsRate |-> Tenths(d), actionItemsRate |-> Tenths(a),
     averageParticipation |-> Whole(p), couldBeAsyncRate |-> Tenths(c),
     lengthRatings |-> [k \in LengthOptions |->
                          CASE k = "Too long" -> long
                            [] k = "Too short" -> short
                            [] OTHER -> 1]] :
     total \in {0, 10}, d \in {1, 2, 4, 5}, a \in {2, 3, 5, 6},
     p \in {29, 30, 49, 50}, c \in {6, 7, 8, 9},
     long \in {3, 5, 6}, short \in {0, 5, 6} }

Argument(aggregatedFeedback) ==
  [op |-> "aggregatedFeedback", recurringMeetingId |-> Undefined,
   aggregated |-> aggregatedFeedback, suggestions |-> <<>>,
   returned |-> Undefined, caught |-> FALSE, raised |-> FALSE]

SuggestionInit ==
  /\ feedbackDatabase = <<>>
  /\ surveyTemplates = {}
  /\ aggregation = NotAggregating
  /\ \E aggregatedFeedback \in AggregatedInputs : call = Argument(aggregatedFeedback)

SuggestionNext == GenerateImprovementSuggestions

SuggestionSpec == SuggestionInit /\ [][SuggestionNext]_vars

----------------------------------------------------------------------------
(* Properties of generateImprovementSuggestions, checked under             *)
(* SuggestionSpec                                                          *)

\* The call that has just returned is generateImprovementSuggestions on an
\* aggregate with at least one response.
Suggested ==
  /\ call.op = "generateImprovementSuggestions"
  /\ call.aggregated.type = "object"
  /\ call.aggregated.totalResponses > 0

Emits(area) == \E i \in 1..Len(call.suggestions) : call.suggestions[i].area = area

PriorityOf(area) ==
  LET i == CHOOSE k \in 1..Len(call.suggestions) : call.suggestions[k].area = area
  IN call.suggestions[i].priority

\* C2: for an aggregate with totalResponses > 0 a Decision Making suggestion
\* is emitted iff decisionsRate < 0.5, an Action Items suggestion iff
\* actionItemsRate < 0.6, a Participation suggestion iff averageParticipation
\* < 50 and a Meeting Format suggestion iff couldBeAsyncRate > 0.6; the
\* comparisons are strict and each rule depends on its own field only.
C2_RulesFireOnStrictThresholds ==
  Suggested =>
    LET a == call.aggregated
    IN /\ Emits("Decision Making") <=> 2 * a.decisionsRate.num < a.decisionsRate.den
       /\ Emits("Action Items") <=> 5 * a.actionItemsRate.num < 3 * a.actionItemsRate.den
       /\ Emits("Participation") <=>
            a.averageParticipation.num < 50 * a.averageParticipation.den
       /\ Emits("Meeting Format") <=>
            5 * a.couldBeAsyncRate.num > 3 * a.couldBeAsyncRate.den

\* Every field sits exactly on its threshold and no rule R1-R4 fires.
C2_Witness ==
  /\ Suggested
  /\ call.aggregated.decisionsRate = Tenths(5)
  /\ call.aggregated.actionItemsRate = Tenths(6)
  /\ call.aggregated.averageParticipation = Whole(50)
  /\ call.aggregated.couldBeAsyncRate = Tenths(6)
  /\ ~Emits("Decision Making") /\ ~Emits("Action Items")
  /\ ~Emits("Participation") /\ ~Emits("Meeting Format")

\* C3: a suggestion of R1-R4 has priority high exactly when decisionsRate <
\* 0.2, actionItemsRate < 0.3, averageParticipation < 30 or couldBeAsyncRate
\* > 0.8 respectively, and medium otherwise; every suggestion's priority is
\* high or medium.
C3_PriorityFollowsCuts ==
  Suggested =>
    LET a == call.aggregated
    IN /\ \A i \in 1..Len(call.suggestions) :
            call.suggestions[i].priority \in {"high", "medium"}
       /\ Emits("Decision Making") =>
            (PriorityOf("Decision Making") = "high"
               <=> 5 * a.decisionsRate.num < a.decisionsRate.den)
       /\ Emits("Action Items") =>
            (PriorityOf("Action Items") = "high"
               <=> 10 * a.actionItemsRate.num < 3 * a.actionItemsRate.den)
       /\ Emits("Participation") =>
            (PriorityOf("Participation") = "high"
               <=> a.averageParticipation.num < 30 * a.averageParticipation.den)
       /\ Emits("Meeting Format") =>
            (PriorityOf("Meeting Format") = "high"
               <=> 5 * a.couldBeAsyncRate.num > 4 * a.couldBeAsyncRate.den)

\* All four rules fire with their field exactly on the priority cut: each
\* suggestion is medium.
C3_Witness ==
  /\ Suggested
  /\ call.aggregated.decisionsRate = Tenths(2)
  /\ call.aggregated.actionItemsRate = Tenths(3)
  /\ call.aggregated.averageParticipation = Whole(30)
  /\ call.aggregated.couldBeAsyncRate = Tenths(8)
  /\ Emits("Decision Making") /\ PriorityOf("Decision Making") = "medium"
  /\ Emits("Action Items") /\ PriorityOf("Action Items") = "medium"
  /\ Emits("Participation") /\ PriorityOf("Participation") = "medium"
  /\ Emits("Meeting Format") /\ PriorityOf("Meeting Format") = "medium"

LengthSuggestions ==
  {i \in 1..Len(call.suggestions) : call.suggestions[i].area = "Meeting Length"}

\* C4: at most one Meeting Length suggestion; it is high when "Too long" is
\* strictly more than half of totalResponses, otherwise medium when "Too
\* short" is strictly more than half of totalResponses, otherwise there is
\* none.  The half is taken of totalResponses, whatever the number of
\* responses that rated the length.
C4_AtMostOneLengthSuggestion ==
  Suggested =>
    LET a == call.aggregated
    IN /\ Cardinality(LengthSuggestions) <= 1
       /\ IF 2 * a.lengthRatings["Too long"] > a.totalResponses
          THEN Emits("Meeting Length") /\ PriorityOf("Meeting Length") = "high"
          ELSE IF 2 * a.lengthRatings["Too short"] > a.totalResponses
          THEN Emits("Meeting Length") /\ PriorityOf("Meeting Length") = "medium"
          ELSE ~Emits("Meeting Length")

\* Both counts exceed half of totalResponses and one suggestion, high, is
\* emitted.
C4_Witness ==
  /\ Suggested
  /\ 2 * call.aggregated.lengthRatings["Too long"] > call.aggregated.totalResponses
  /\ 2 * call.aggregated.lengthRatings["Too short"] > call.aggregated.totalResponses
  /\ Cardinality(LengthSuggestions) = 1
  /\ PriorityOf("Meeting Length") = "high"

AreaRank(area) ==
  CASE area = "Decision Making" -> 1
    [] area = "Action Items" -> 2
    [] area = "Participation" -> 3
    [] area = "Meeting Format" -> 4
    [] area = "Meeting Length" -> 5
    [] OTHER -> 0

\* C5: the suggestions come in the order Decision Making, Action Items,
\* Participation, Meeting Format, Meeting Length, whichever rules fired, and
\* no area occurs twice.
C5_FixedAreaOrder ==
  call.op = "generateImprovementSuggestions" =>
    /\ \A i \in 1..Len(call.suggestions) : AreaRank(call.suggestions[i].area) > 0
    /\ \A i, j \in 1..Len(call.suggestions) :
         i < j => AreaRank(call.suggestions[i].area) < AreaRank(call.suggestions[j].area)

\* A proper subset of the rules fired, the length rule among them, with a
\* rule before it skipped.
C5_Witness ==
  /\ Suggested
  /\ Len(call.suggestions) = 3
  /\ Emits("Action Items") /\ Emits("Meeting Format") /\ Emits("Meeting Length")

\* C6: the result is the empty sequence when the argument is null/undefined
\* or its totalResponses is 0, whatever the other fields hold.
C6_EmptyForAbsentOrZero ==
  (/\ call.op = "generateImprovementSuggestions"
   /\ (call.aggregated.type = "null" \/ call.aggregated.totalResponses = 0))
  => call.suggestions = << >>

\* totalResponses is 0 while every other field would fire its rule.
C6_Witness ==
  /\ call.op = "generateImprovementSuggestions"
  /\ call.aggregated.type = "object"
  /\ call.aggregated.totalResponses = 0
  /\ call.aggregated.decisionsRate = Tenths(1)
  /\ call.aggregated.actionItemsRate = Tenths(2)
  /\ call.aggregated.averageParticipation = Whole(29)
  /\ call.aggregated.couldBeAsyncRate = Tenths(9)
  /\ call.aggregated.lengthRatings["Too long"] = 6
  /\ call.suggestions = << >>

----------------------------------------------------------------------------
(* Properties of getAggregatedFeedback, checked under Spec                 *)

\* The call that has just returned is getAggregatedFeedback; the store is
\* the one it read.
Aggregating == call.op = "getAggregatedFeedback"

\* The record belongs to a meeting whose recurringMeetingId is id, is
\* completed and holds a response.  The recurringMeetingId of a record is
\* the property of that name of the meeting reference it stores (undefined
\* when the reference has no such property); a record that stores no
\* meeting reference has none.
Matches(fb, id) ==
  /\ fb.meetingId.type # "null"
  /\ fb.meetingId.recurringMeetingId = id
  /\ fb.status = "completed"
  /\ Len(fb.responses) >= 1

Matching(id) ==
  {i \in 1..Len(feedbackDatabase) : Matches(feedbackDatabase[i], id)}

\* The (record, response) positions of the responses of the matching records.
MatchingResponses(id) ==
  {p \in (1..Len(feedbackDatabase)) \X (1..TotalStored(feedbackDatabase)) :
     p[1] \in Matching(id) /\ p[2] <= Len(feedbackDatabase[p[1]].responses)}

Answer(p) == feedbackDatabase[p[1]].responses[p[2]].data

\* The store without its i-th record.
Without(db, i) == SubSeq(db, 1, i - 1) \o SubSeq(db, i + 1, Len(db))

C7_TotalResponsesCountsEveryResponse ==
  (Aggregating /\ call.aggregated.type = "object") =>
    call.aggregated.totalResponses = Cardinality(MatchingResponses(call.recurringMeetingId))

\* A record that was submitted to twice is aggregated with both responses.
C7_Witness ==
  /\ Aggregating
  /\ call.aggregated.type = "object"
  /\ \E i \in Matching(call.recurringMeetingId) : Len(feedbackDatabase[i].responses) = 2
  /\ call.aggregated.totalResponses = 2

TruthyCount(id, question) ==
  Cardinality({p \in MatchingResponses(id) :
                 CASE question = "decision_made" -> Answer(p).decision_made
                   [] question = "action_items" -> Answer(p).action_items
                   [] question = "could_be_async" -> Answer(p).could_be_async})

\* rate = count / totalResponses, with a non-zero divisor, and 0 <= rate <= 1
IsRateOf(rate, count, total) ==
  /\ rate.den # 0
  /\ total # 0
  /\ rate.num * total = count * rate.den
  /\ 0 <= rate.num /\ rate.num <= rate.den

\* C8: in a non-absent aggregate decisionsRate, actionItemsRate and
\* couldBeAsyncRate are the number of responses with a truthy decision_made,
\* action_items and could_be_async answer divided by totalResponses; each
\* lies in [0,1] and the divisor is never 0.
C8_RatesAreTruthyCountsOverTotal ==
  (Aggregating /\ call.aggregated.type = "object") =>
    LET id == call.recurringMeetingId
        a == call.aggregated
    IN /\ IsRateOf(a.decisionsRate, TruthyCount(id, "decision_made"), a.totalResponses)
       /\ IsRateOf(a.actionItemsRate, TruthyCount(id, "action_items"), a.totalResponses)
       /\ IsRateOf(a.couldBeAsyncRate, TruthyCount(id, "could_be_async"), a.totalResponses)

\* Two responses, both with a decision, one with action items, one that
\* could have been asynchronous.
C8_Witness ==
  /\ Aggregating
  /\ call.aggregated.type = "object"
  /\ call.aggregated.totalResponses = 2
  /\ call.aggregated.decisionsRate = [num |-> 2, den |-> 2]
  /\ call.aggregated.actionItemsRate = [num |-> 1, den |-> 2]
  /\ call.aggregated.couldBeAsyncRate = [num |-> 1, den |-> 2]

Bijections(n) ==
  {f \in [1..n -> 1..n] : \A i, j \in 1..n : f[i] = f[j] => i = j}

\* The records obtained from fb by permuting its responses.
ResponsePermutations(fb) ==
  {[fb EXCEPT !.responses = [j \in 1..Len(fb.responses) |-> fb.responses[f[j]]]] :
     f \in Bijections(Len(fb.responses))}

RECURSIVE PermuteWithin(_)
PermuteWithin(db) ==
  IF db = <<>> THEN {<<>>}
  ELSE {<<h>> \o t : h \in ResponsePermutations(Head(db)), t \in PermuteWithin(Tail(db))}

\* Every store that holds the records of db in some order, each with its
\* responses in some order.
PermutedStores(db) ==
  {[i \in 1..Len(d) |-> d[f[i]]] : f \in Bijections(Len(db)), d \in PermuteWithin(db)}

SameStatistics(a, b) ==
  /\ a.type = b.type
  /\ a.type = "object" =>
       /\ a.totalResponses = b.totalResponses
       /\ a.decisionsRate = b.decisionsRate
       /\ a.actionItemsRate = b.actionItemsRate
       /\ a.couldBeAsyncRate = b.couldBeAsyncRate
       /\ a.averageParticipation = b.averageParticipation
       /\ a.lengthRatings = b.lengthRatings

\* C9: the rates, averageParticipation, totalResponses and lengthRatings of
\* the result are the same for every order of the records in the store and
\* every order of the responses inside each record.
C9_OrderInvariant ==
  Aggregating =>
    \A d \in PermutedStores(feedbackDatabase) :
      SameStatistics(GetAggregatedFeedbackResult(d, call.recurringMeetingId).value,
                     call.aggregated)

\* Two matching records with different answers were aggregated.
C9_Witness ==
  /\ Aggregating
  /\ call.aggregated.type = "object"
  /\ Cardinality(Matching(call.recurringMeetingId)) = 2
  /\ feedbackDatabase[1].responses # feedbackDatabase[2].responses
  /\ call.aggregated.averageParticipation.num = 100

\* The record carries a recurringMeetingId: a string naming a series.
CarriesRecurringMeetingId(fb) ==
  /\ fb.meetingId.type = "object"
  /\ fb.meetingId.recurringMeetingId \notin {Undefined, Null}

\* C10: a record that carries no recurringMeetingId is included in no
\* aggregate, whatever the identifier (null and undefined too): the result
\* of the call is the one the store without that record gives.
C10_RecordWithoutSeriesNeverIncluded ==
  Aggregating =>
    \A i \in 1..Len(feedbackDatabase) :
      ~CarriesRecurringMeetingId(feedbackDatabase[i]) =>
        GetAggregatedFeedbackResult(Without(feedbackDatabase, i),
                                    call.recurringMeetingId).value = call.aggregated

\* The matching responses that answered the meeting_length question.
RatedLength(id) ==
  {p \in MatchingResponses(id) : Answer(p).meeting_length # Undefined}

\* C11: in a non-absent aggregate lengthRatings has exactly the keys Too
\* short, Just right and Too long, and the three counts sum to the number of
\* aggregated responses that supplied a meeting_length answer.
C11_LengthRatingsThreeKeysSumToAnswers ==
  (Aggregating /\ call.aggregated.type = "object") =>
    /\ DOMAIN call.aggregated.lengthRatings = LengthOptions
    /\ call.aggregated.lengthRatings["Too short"]
         + call.aggregated.lengthRatings["Just right"]
         + call.aggregated.lengthRatings["Too long"]
       = Cardinality(RatedLength(call.recurringMeetingId))

\* The matching responses that supplied a participation answer.
SuppliedParticipation(id) ==
  {p \in MatchingResponses(id) : Answer(p).participation # <<>>}

\* C12: when every supplied participation answer is a percentage in 0..100,
\* averageParticipation lies in 0..100, and it is 0 when no aggregated
\* response supplied a participation answer.
C12_AverageParticipationInRange ==
  (/\ Aggregating
   /\ call.aggregated.type = "object"
   /\ \A p \in SuppliedParticipation(call.recurringMeetingId) :
        Answer(p).participation[1] \in 0..100)
  => LET avg == call.aggregated.averageParticipation
     IN /\ avg.den > 0
        /\ 0 <= avg.num /\ avg.num <= 100 * avg.den
        /\ SuppliedParticipation(call.recurringMeetingId) = {} => avg.num = 0

\* Two responses with a percentage in range were averaged.
C12_Witness ==
  /\ Aggregating
  /\ call.aggregated.type = "object"
  /\ Cardinality(SuppliedParticipation(call.recurringMeetingId)) = 2
  /\ \A p \in SuppliedParticipation(call.recurringMeetingId) :
       Answer(p).participation[1] = 80
  /\ call.aggregated.averageParticipation = [num |-> 160, den |-> 2]

\* C15: getAggregatedFeedback followed by generateImprovementSuggestions on
\* its result ends in a value and never in a raised error, whatever the
\* store holds: the first returns an aggregate or null, the second a list.
C15_AggregateThenSuggestNeverRaises ==
  /\ call.op = "getAggregatedFeedback" =>
       ~call.raised /\ call.returned \in {"object", "null"}
  /\ call.op = "generateImprovementSuggestions" =>
       ~call.raised /\ call.returned = "array"

\* A matching record holds a null response: the aggregation threw inside,
\* returned null, and the suggestions computed from it are the empty list.
C15_Witness ==
  /\ call.op = "generateImprovementSuggestions"
  /\ \E p \in MatchingResponses(call.recurringMeetingId) : Answer(p).isNull
  /\ call.aggregated.type = "null"
  /\ call.returned = "array" /\ call.suggestions = <<>> /\ ~call.raised

\* The meeting a record was scheduled for: scheduleFeedback copies the id
\* (or null) and the title of the meeting into the record.
ScheduledFor(fb) ==
  CHOOSE meeting \in Meetings :
    /\ fb.meetingId = (IF Truthy(meeting.id) THEN meeting.id ELSE NullValue)
    /\ fb.meetingTitle = meeting.title

\* C20: a record scheduled for a meeting of the recurring series r and
\* completed by at least one submitFeedback is included in
\* getAggregatedFeedback(r): the result is not absent and its totalResponses
\* counts the responses of that record.
C20_CompletedRecordOfSeriesIsAggregated ==
  Aggregating =>
    \A i \in 1..Len(feedbackDatabase) :
      LET fb == feedbackDatabase[i]
      IN (/\ ScheduledFor(fb).recurringMeetingId = call.recurringMeetingId
          /\ call.recurringMeetingId \notin {Undefined, Null}
          /\ fb.status = "completed"
          /\ Len(fb.responses) >= 1)
         => /\ call.aggregated.type = "object"
            /\ call.aggregated.totalResponses >= Len(fb.responses)

----------------------------------------------------------------------------
(* processPendingFeedback and the life cycle of a record, checked under    *)
(* ProcessingSpec                                                          *)

\* Values new Date() gives to processedAt.
Dates == {"date-1", "date-2"}

\* fb.processed: the property does not exist until processPendingFeedback
\* sets it.
Processed(fb) == "processed" \in DOMAIN fb /\ fb.processed

\* IsPending that forgets the !fb.processed test.
IsPendingIgnoringProcessed(fb) == fb.status = "completed"

\* The filter of processPendingFeedback.
IsPending(fb) == fb.status = "completed" /\ ~Processed(fb)

\* MarkProcessed that stamps processedAt and leaves processed unset.
MarkProcessedStampOnly(fb, now) ==
  [k \in (DOMAIN fb) \cup {"processedAt"} |->
     IF k = "processedAt" THEN now ELSE fb[k]]

\* feedback.processed = true; feedback.processedAt = new Date()
MarkProcessed(fb, now) ==
  [k \in (DOMAIN fb) \cup {"processed", "processedAt"} |->
     IF k = "processed" THEN TRUE
     ELSE IF k = "processedAt" THEN now
     ELSE fb[k]]

\* The records the filter selects, as positions of the store.
Pending(db) == {i \in 1..Len(db) : IsPending(db[i])}

\* processPendingFeedback(): marks every pending record and reports the
\* counts; it contains no await, so it runs to its return in one step.
ProcessPendingFeedback(now) ==
  /\ feedbackDatabase' =
       [i \in 1..Len(feedbackDatabase) |->
          IF i \in Pending(feedbackDatabase)
          THEN MarkProcessed(feedbackDatabase[i], now)
          ELSE feedbackDatabase[i]]
  /\ call' = Returned("processPendingFeedback", "object")
             @@ [processed |-> Cardinality(Pending(feedbackDatabase)),
                 failed |-> 0,
                 remaining |-> Cardinality(Pending(feedbackDatabase'))]
  /\ UNCHANGED <<surveyTemplates, aggregation>>

\* The meetings and answers the life cycle is exercised with.
ProcessingMeetings == {meeting \in Meetings : meeting.id.type = "object"}

ProcessingResponses ==
  { Answers(TRUE, FALSE, <<80>>, TRUE, "Too long"),
    Answers(FALSE, TRUE, <<>>, FALSE, Undefined) }

ProcessingNext ==
  \/ Initialize
  \/ \E meeting \in ProcessingMeetings : ScheduleFeedback(meeting, "standard")
  \/ \E feedbackId \in 1..MaxRecords, responses \in ProcessingResponses :
       SubmitFeedback(feedbackId, responses)
  \/ \E now \in Dates : ProcessPendingFeedback(now)
  \/ \E recurringMeetingId \in {"rec-123", "rec-456"} :
       GetAggregatedFeedback(recurringMeetingId)
  \/ GenerateImprovementSuggestions

ProcessingSpec == Init /\ [][ProcessingNext]_vars

\* Position of a record in its life cycle: scheduled, completed, processed.
Stage(fb) ==
  IF Processed(fb) THEN 3 ELSE IF fb.status = "completed" THEN 2 ELSE 1

\* C13: a record only moves forward along scheduled -> completed ->
\* processed: no step removes a record or lowers its stage, a record is
\* scheduled exactly while it holds no response (so the first response
\* completes it), only a completed record is processed, and a processed
\* record stays processed with the processedAt it was given, whatever
\* submitFeedback and processPendingFeedback calls follow.
C13_StatusOnlyMovesForward ==
  [][/\ Len(feedbackDatabase') >= Len(feedbackDatabase)
     /\ \A i \in 1..Len(feedbackDatabase) :
          LET before == feedbackDatabase[i]
              after == feedbackDatabase'[i]
          IN /\ Stage(after) >= Stage(before)
             /\ after.status \in {"scheduled", "completed"}
             /\ after.status = "scheduled" <=> after.responses = << >>
             /\ Processed(after) => after.status = "completed"
             /\ Processed(before) =>
                  Processed(after) /\ after.processedAt = before.processedAt]_vars

\* A record was processed and then took a further response: it holds two
\* responses, is still processed, and the last call was the successful
\* submitFeedback.
C13_Witness ==
  /\ call.op = "submitFeedback" /\ call.returned = "true"
  /\ \E i \in 1..Len(feedbackDatabase) :
       /\ Processed(feedbackDatabase[i])
       /\ feedbackDatabase[i].status = "completed"
       /\ Len(feedbackDatabase[i].responses) = 2
  /\ \E i \in 1..Len(feedbackDatabase) : feedbackDatabase[i].status = "scheduled"

\* C14: getAggregatedFeedback and generateImprovementSuggestions leave the
\* store as it was: the same records in the same order, each with the same
\* status, responses and processed marker.
C14_ReadsLeaveStoreUnchanged ==
  [][call'.op \in {"getAggregatedFeedback", "generateImprovementSuggestions"}
       => feedbackDatabase' = feedbackDatabase]_vars

\* Suggestions were computed from an aggregate of a store that holds a
\* processed record with its responses and a scheduled one.
C14_Witness ==
  /\ call.op = "generateImprovementSuggestions"
  /\ call.aggregated.type = "object" /\ call.suggestions # << >>
  /\ \E i \in 1..Len(feedbackDatabase) :
       /\ Processed(feedbackDatabase[i])
       /\ Matches(feedbackDatabase[i], call.recurringMeetingId)
  /\ \E i \in 1..Len(feedbackDatabase) : feedbackDatabase[i].status = "scheduled"

----------------------------------------------------------------------------
(* Meeting evaluation: the routes POST /api/meetings/evaluate-single and   *)
(* POST /api/meetings/evaluate with the scorer they call, checked under    *)
(* EvaluationSpec                                                          *)

MaxBatch == 2

\* The default weights.
DECISION_MADE == 30
AGENDA_PROVIDED == 15
FOLLOW_UP_SENT == 20
COULD_BE_ASYNC == -25
PARTICIPATION_RATIO == 20
LONG_MEETING_PENALTY == -10

\* The base score and the duration above which a meeting is long.
BaseScore == 50
LongMeetingMinutes == 60

\* A weights instance: the default weights with the given weight for
\* couldBeAsync and the given band cut points.
Weights(couldBeAsync, highBand, mediumBand) ==
  [DECISION_MADE |-> DECISION_MADE,
   AGENDA_PROVIDED |-> AGENDA_PROVIDED,
   FOLLOW_UP_SENT |-> FOLLOW_UP_SENT,
   COULD_BE_ASYNC |-> couldBeAsync,
   PARTICIPATION_RATIO |-> PARTICIPATION_RATIO,
   LONG_MEETING_PENALTY |-> LONG_MEETING_PENALTY,
   longMeetingMinutes |-> LongMeetingMinutes,
   highBand |-> highBand,
   mediumBand |-> mediumBand]

\* The weights instances evaluations are made with: the default weight of
\* couldBeAsync and a heavier override, cut points that the scores of the
\* inputs hit exactly, and a pair with highBand below mediumBand.
WeightsInstances ==
  {Weights(c, h, m) : c \in {COULD_BE_ASYNC, -60}, h \in {30, 70, 93}, m \in {38, 40}}

\* The meeting of a request body; present is FALSE when the body has none.
Meeting(duration, participantCount, expectedSpeakerCount, hasAgenda, decisionMade, followUpSent, couldBeAsync) ==
  [present |-> TRUE, duration |-> duration,
   participantCount |-> participantCount,
   expectedSpeakerCount |-> expectedSpeakerCount,
   hasAgenda |-> hasAgenda, decisionMade |-> decisionMade,
   followUpSent |-> followUpSent, couldBeAsync |-> couldBeAsync]

NoMeeting == [Meeting(0, 0, 0, FALSE, FALSE, FALSE, FALSE) EXCEPT !.present = FALSE]

MeetingInputs ==
  {Meeting(d, p, e, a, m, f, c) :
     d \in {0, 30, 90}, p \in {0, 1, 10}, e \in {0, 1, 4, 11},
     a \in BOOLEAN, m \in BOOLEAN, f \in BOOLEAN, c \in BOOLEAN}

\* The conditions under which the scorer fails with ValidationError.
ValidMeeting(meeting) ==
  /\ meeting.duration > 0
  /\ meeting.participantCount >= 1
  /\ meeting.expectedSpeakerCount <= meeting.participantCount

\* Steps 1 to 6: the running total, as a fraction over participantCount
\* (the participation ratio is expectedSpeakerCount / participantCount).
RunningTotal(meeting, weights) ==
  LET whole == BaseScore
               + (IF meeting.decisionMade THEN weights.DECISION_MADE ELSE 0)
               + (IF meeting.hasAgenda THEN weights.AGENDA_PROVIDED ELSE 0)
               + (IF meeting.followUpSent THEN weights.FOLLOW_UP_SENT ELSE 0)
               + (IF meeting.couldBeAsync THEN weights.COULD_BE_ASYNC ELSE 0)
               + (IF meeting.duration > weights.longMeetingMinutes
                  THEN weights.LONG_MEETING_PENALTY ELSE 0)
  IN [num |-> whole * meeting.participantCount
              + weights.PARTICIPATION_RATIO * meeting.expectedSpeakerCount,
      den |-> meeting.participantCount]

\* Step 7: clamp to [0, 100].
Clamp(total) ==
  [num |-> IF total.num < 0 THEN 0
           ELSE IF total.num > 100 * total.den THEN 100 * total.den
           ELSE total.num,
   den |-> total.den]

\* Band with the cut points compared strictly.
BandStrict(score, weights) ==
  IF score.num > weights.highBand * score.den THEN "high"
  ELSE IF score.num > weights.mediumBand * score.den THEN "medium"
  ELSE "low"

\* Step 8: the band of a score.
Band(score, weights) ==
  IF score.num >= weights.highBand * score.den THEN "high"
  ELSE IF score.num >= weights.mediumBand * score.den THEN "medium"
  ELSE "low"

\* Recommendation that declines every low-band meeting.
RecommendationDeclineFirst(band, couldBeAsync) ==
  IF band = "low" THEN "consider-decline"
  ELSE IF couldBeAsync /\ band # "high" THEN "consider-async"
  ELSE "keep"

\* Step 9: the recommendation.
Recommendation(band, couldBeAsync) ==
  IF band = "low" /\ ~couldBeAsync THEN "consider-decline"
  ELSE IF couldBeAsync /\ band # "high" THEN "consider-async"
  ELSE "keep"

ValidationError(position) ==
  [type |-> "ValidationError", message |-> "ValidationError", position |-> position]

\* score(meeting, weights)
MeetingScorer(meeting, weights) ==
  IF ~ValidMeeting(meeting) THEN ValidationError(0)
  ELSE LET score == Clamp(RunningTotal(meeting, weights))
           band == Band(score, weights)
       IN [type |-> "MeetingEvaluation", score |-> score, band |-> band,
           recommendation |-> Recommendation(band, meeting.couldBeAsync)]

\* The meetings of a batch: the two scenario meetings and two invalid ones.
BatchMeetings ==
  { Meeting(90, 10, 4, TRUE, TRUE, FALSE, FALSE),
    Meeting(90, 10, 4, TRUE, FALSE, FALSE, TRUE),
    Meeting(0, 10, 4, TRUE, TRUE, FALSE, FALSE),
    Meeting(30, 1, 4, FALSE, FALSE, FALSE, FALSE) }

\* The meetings property of a request body: missing, an object that is not
\* an array, or an array of meetings.
MeetingsInputs ==
  {[kind |-> k, items |-> << >>] : k \in {"undefined", "object"}}
  \cup {[kind |-> "array", items |-> items] :
          items \in UNION {[1..n -> BatchMeetings] : n \in 0..MaxBatch}}

NoMeetings == [kind |-> "undefined", items |-> << >>]

\* The positions of the meetings the scorer rejects.
InvalidPositions(items) == {i \in 1..Len(items) : ~ValidMeeting(items[i])}

Min(S) == CHOOSE x \in S : \A y \in S : x <= y

\* evaluateAll that leaves the meetings the scorer rejects out of the result.
EvaluateAllSkippingInvalid(meetings, weights) ==
  IF meetings.kind # "array" THEN ValidationError(0)
  ELSE LET valid == SelectSeq(meetings.items, ValidMeeting)
       IN [type |-> "CalendarSummary",
           evaluations |-> [i \in 1..Len(valid) |-> MeetingScorer(valid[i], weights)],
           meetingCount |-> Len(valid)]

\* evaluateAll(meetings, weights): fails when the input is not a sequence
\* and on the first meeting the scorer rejects; otherwise one evaluation per
\* meeting, in input order.
EvaluateAll(meetings, weights) ==
  IF meetings.kind # "array" THEN ValidationError(0)
  ELSE IF InvalidPositions(meetings.items) # {}
  THEN ValidationError(Min(InvalidPositions(meetings.items)))
  ELSE [type |-> "CalendarSummary",
        evaluations |-> [i \in 1..Len(meetings.items) |->
                           MeetingScorer(meetings.items[i], weights)],
        meetingCount |-> Len(meetings.items)]

\* What a route sends back.
NoResponse == [status |-> 0, success |-> FALSE, message |-> "", evaluation |-> << >>]

\* res.status(500).json({ success: false, message })
Failure(message) ==
  [status |-> 500, success |-> FALSE, message |-> message, evaluation |-> << >>]

\* res.json({ success: true, evaluation })
Success(evaluation) ==
  [status |-> 200, success |-> TRUE, message |-> "", evaluation |-> <<evaluation>>]

\* A request that has not been handled yet.
Request(route, meeting, meetings, weights) ==
  [op |-> "request", route |-> route, meeting |-> meeting, meetings |-> meetings,
   weights |-> weights, response |-> NoResponse]

EvaluationInit ==
  /\ feedbackDatabase = << >>
  /\ surveyTemplates = {}
  /\ aggregation = NotAggregating
  /\ \E weights \in WeightsInstances :
       \/ \E meeting \in MeetingInputs \cup {NoMeeting} :
            call = Request("evaluate-single", meeting, NoMeetings, weights)
       \/ \E meetings \in MeetingsInputs :
            call = Request("evaluate", NoMeeting, meetings, weights)

\* POST /api/meetings/evaluate-single
EvaluateSingle ==
  /\ call.op = "request" /\ call.route = "evaluate-single"
  /\ call' = [call EXCEPT
       !.op = "POST /api/meetings/evaluate-single",
       !.response =
          IF ~call.meeting.present THEN Failure("Invalid meeting data")
          ELSE LET evaluation == MeetingScorer(call.meeting, call.weights)
               IN IF evaluation.type = "ValidationError"
                  THEN Failure(evaluation.message)
                  ELSE Success(evaluation)]
  /\ UNCHANGED <<feedbackDatabase, surveyTemplates, aggregation>>

\* POST /api/meetings/evaluate
Evaluate ==
  /\ call.op = "request" /\ call.route = "evaluate"
  /\ call' = [call EXCEPT
       !.op = "POST /api/meetings/evaluate",
       !.response =
          IF call.meetings.kind # "array" THEN Failure("Invalid meetings data")
          ELSE LET evaluation == EvaluateAll(call.meetings, call.weights)
               IN IF evaluation.type = "ValidationError"
                  THEN Failure(evaluation.message)
                  ELSE Success(evaluation)]
  /\ UNCHANGED <<feedbackDatabase, surveyTemplates, aggregation>>

EvaluationNext == EvaluateSingle \/ Evaluate

EvaluationSpec == EvaluationInit /\ [][EvaluationNext]_vars

\* The response of the single-meeting route to a meeting the scorer accepts.
Evaluated ==
  /\ call.op = "POST /api/meetings/evaluate-single"
  /\ call.meeting.present /\ ValidMeeting(call.meeting)

\* C17: for every valid meeting and every weights instance the evaluation
\* is returned with a score in [0, 100], and the band is high iff score >=
\* highBand, medium iff mediumBand <= score < highBand, low otherwise; a
\* score equal to a cut point is in the higher band.
C17_ScoreBoundedAndBandMatchesCuts ==
  Evaluated =>
    /\ call.response.success
    /\ LET e == call.response.evaluation[1]
           high == e.score.num >= call.weights.highBand * e.score.den
           medium == e.score.num >= call.weights.mediumBand * e.score.den
       IN /\ e.score.den > 0
          /\ 0 <= e.score.num /\ e.score.num <= 100 * e.score.den
          /\ e.band \in {"high", "medium", "low"}
          /\ e.band = "high" <=> high
          /\ e.band = "medium" <=> (medium /\ ~high)
          /\ e.band = "low" <=> (~medium /\ ~high)

\* Scenario A with highBand 93: the score is exactly 93 and the band is high.
C17_Witness ==
  /\ Evaluated
  /\ call.meeting = Meeting(90, 10, 4, TRUE, TRUE, FALSE, FALSE)
  /\ call.weights = Weights(COULD_BE_ASYNC, 93, 40)
  /\ call.response.evaluation[1].score = [num |-> 930, den |-> 10]
  /\ call.response.evaluation[1].band = "high"

\* C18: the recommendation is consider-decline iff the band is low and
\* couldBeAsync is false, consider-async iff couldBeAsync is true and the
\* band is not high, and keep in every other case; a low-band meeting that
\* could be async gets consider-async.
C18_RecommendationFollowsBandAndAsync ==
  Evaluated =>
    /\ call.response.success
    /\ LET e == call.response.evaluation[1]
           decline == e.band = "low" /\ ~call.meeting.couldBeAsync
           async == call.meeting.couldBeAsync /\ e.band # "high"
       IN /\ e.recommendation = "consider-decline" <=> decline
          /\ e.recommendation = "consider-async" <=> async
          /\ e.recommendation = "keep" <=> (~decline /\ ~async)

\* Scenario B: score 38 under mediumBand 40 is low, the meeting could be
\* async, and the recommendation is consider-async.
C18_Witness ==
  /\ Evaluated
  /\ call.meeting = Meeting(90, 10, 4, TRUE, FALSE, FALSE, TRUE)
  /\ call.weights = Weights(COULD_BE_ASYNC, 70, 40)
  /\ call.response.evaluation[1].score = [num |-> 380, den |-> 10]
  /\ call.response.evaluation[1].band = "low"
  /\ call.response.evaluation[1].recommendation = "consider-async"

\* C19: batch evaluation is fail-fast: when the input is not a sequence or
\* one of the meetings is invalid the call fails and carries no evaluation;
\* a successful result holds one evaluation per input meeting, in order.
C19_BatchFailsFast ==
  call.op = "POST /api/meetings/evaluate" =>
    LET items == call.meetings.items
        r == call.response
    IN /\ (call.meetings.kind # "array" \/ InvalidPositions(items) # {}) =>
            ~r.success /\ r.evaluation = << >>
       /\ r.success =>
            /\ Len(r.evaluation) = 1
            /\ Len(r.evaluation[1].evaluations) = Len(items)
            /\ \A i \in 1..Len(items) :
                 /\ r.evaluation[1].evaluations[i].type = "MeetingEvaluation"
                 /\ r.evaluation[1].evaluations[i] = MeetingScorer(items[i], call.weights)

\* A batch of a valid meeting followed by an invalid one failed with no
\* evaluation.
C19_Witness ==
  /\ call.op = "POST /api/meetings/evaluate"
  /\ call.meetings.kind = "array"
  /\ Len(call.meetings.items) = 2
  /\ ValidMeeting(call.meetings.items[1]) /\ ~ValidMeeting(call.meetings.items[2])
  /\ ~call.response.success /\ call.response.evaluation = << >>

----------------------------------------------------------------------------
(* getAggregatedFeedback followed statement by statement among requests    *)
(* that submit and schedule, checked under ConcurrentSpec                  *)

\* AggregatorYields with an await between the records of the forEach.
AggregatorYieldsBetweenRecords == TRUE

\* Whether a started getAggregatedFeedback hands control back to the event
\* loop before it returns: the method is synchronous, it contains no await
\* and no callback that runs later, so no other handler runs until it has
\* returned.
AggregatorYields == FALSE

\* Another handler can run now.
CanRun == aggregation.pc # "forEach" \/ AggregatorYields

\* this.feedbackDatabase.filter(...): the records selected, as positions of
\* the store (the array holds references to the records, not copies).
FilterPositions(db, recurringMeetingId) ==
  SelectSeq([i \in 1..Len(db) |-> i],
            LAMBDA i : IsFeedbackItem(db[i], recurringMeetingId))

\* The call returns value; started is the store as it stood when the call
\* began.
AggregationReturns(recurringMeetingId, feedbackItems, started, value, caught) ==
  /\ call' = [op |-> "getAggregatedFeedback",
              recurringMeetingId |-> recurringMeetingId,
              aggregated |-> value, suggestions |-> <<>>,
              returned |-> value.type, caught |-> caught, raised |-> FALSE]
  /\ aggregation' = [pc |-> "returned", recurringMeetingId |-> recurringMeetingId,
                     feedbackItems |-> feedbackItems, started |-> started]

\* getAggregatedFeedback(recurringMeetingId) up to the forEach: the filter,
\* the early return and the construction of aggregated.
AggregateStart(recurringMeetingId) ==
  /\ aggregation.pc # "forEach"
  /\ LET feedbackItems == FilterPositions(feedbackDatabase, recurringMeetingId)
     IN IF Len(feedbackItems) = 0
        THEN AggregationReturns(recurringMeetingId, feedbackItems, feedbackDatabase,
                                [type |-> "null"], FALSE)
        ELSE /\ aggregation' =
                  [pc |-> "forEach", recurringMeetingId |-> recurringMeetingId,
                   feedbackItems |-> feedbackItems, position |-> 1,
                   meetingTitle |-> feedbackDatabase[feedbackItems[1]].meetingTitle,
                   acc |-> InitialCounts, started |-> feedbackDatabase]
             /\ UNCHANGED call
  /\ UNCHANGED <<feedbackDatabase, surveyTemplates>>

\* One round of feedbackItems.forEach: the responses the record holds now.
AggregateVisit ==
  /\ aggregation.pc = "forEach"
  /\ aggregation.position <= Len(aggregation.feedbackItems)
  /\ ~aggregation.acc.threw
  /\ aggregation' =
       [aggregation EXCEPT
          !.acc = ProcessResponses(@,
                    feedbackDatabase[aggregation.feedbackItems[aggregation.position]].responses),
          !.position = @ + 1]
  /\ UNCHANGED <<feedbackDatabase, surveyTemplates, call>>

\* The rates and the return, or the catch block after a throw.
AggregateReturn ==
  /\ aggregation.pc = "forEach"
  /\ aggregation.position > Len(aggregation.feedbackItems) \/ aggregation.acc.threw
  /\ IF aggregation.acc.threw
     THEN AggregationReturns(aggregation.recurringMeetingId, aggregation.feedbackItems,
                             aggregation.started, [type |-> "null"], TRUE)
     ELSE AggregationReturns(aggregation.recurringMeetingId, aggregation.feedbackItems,
                             aggregation.started,
                             CalculateRates(aggregation.recurringMeetingId,
                                            aggregation.meetingTitle, aggregation.acc),
                             FALSE)
  /\ UNCHANGED <<feedbackDatabase, surveyTemplates>>

\* The requests that reach the store while the aggregation may be under way.
InitializeRequest == CanRun /\ Initialize

ScheduleRequest(meeting) == CanRun /\ ScheduleFeedback(meeting, "standard")

SubmitRequest(feedbackId, responses) == CanRun /\ SubmitFeedback(feedbackId, responses)

ConcurrentNext ==
  \/ InitializeRequest
  \/ \E meeting \in ProcessingMeetings : ScheduleRequest(meeting)
  \/ \E feedbackId \in 1..MaxRecords, responses \in ProcessingResponses \cup {NullData} :
       SubmitRequest(feedbackId, responses)
  \/ \E recurringMeetingId \in {"rec-123", "rec-456"} : AggregateStart(recurringMeetingId)
  \/ AggregateVisit
  \/ AggregateReturn

ConcurrentSpec == Init /\ [][ConcurrentNext]_vars

\* C16: a getAggregatedFeedback call never produces a torn read: whatever
\* submit, schedule and aggregate requests arrive, the store stays as it
\* stood when the call began until the call has returned, and the result is
\* the aggregation of that one store, so totalResponses and the numerators
\* of the rates count the same responses.
C16_NoTornRead ==
  /\ aggregation.pc = "forEach" => feedbackDatabase = aggregation.started
  /\ (aggregation.pc = "returned" /\ call.op = "getAggregatedFeedback") =>
       /\ feedbackDatabase = aggregation.started
       /\ LET r == GetAggregatedFeedbackResult(aggregation.started,
                                               aggregation.recurringMeetingId)
          IN call.aggregated = r.value /\ call.caught = r.caught

\* A call that visited two records, each with one response, has returned
\* the aggregate of both.
C16_Witness ==
  /\ aggregation.pc = "returned" /\ call.op = "getAggregatedFeedback"
  /\ Len(aggregation.feedbackItems) = 2
  /\ call.aggregated.type = "object"
  /\ call.aggregated.totalResponses = 2

----------------------------------------------------------------------------
(* The records of the store through schedule, submit and processing        *)

\* r is s or s with elements appended.
IsPrefix(s, r) == Len(s) <= Len(r) /\ SubSeq(r, 1, Len(s)) = s

\* Every record is scheduled exactly when it holds no response and
\* completed exactly when it holds at least one.
StatusMatchesResponses ==
  \A i \in 1..Len(feedbackDatabase) :
    LET fb == feedbackDatabase[i]
    IN /\ fb.status = "scheduled" <=> Len(fb.responses) = 0
       /\ fb.status = "completed" <=> Len(fb.responses) >= 1

\* C22: in every reachable state a record's status is scheduled exactly
\* when its responses list is empty and completed exactly when it holds at
\* least one response; no step removes a record, and the responses of a
\* record only grow.
C22_StatusTracksResponses ==
  /\ []StatusMatchesResponses
  /\ [][/\ Len(feedbackDatabase') >= Len(feedbackDatabase)
        /\ \A i \in 1..Len(feedbackDatabase) :
             /\ feedbackDatabase'[i].id = feedbackDatabase[i].id
             /\ IsPrefix(feedbackDatabase[i].responses,
                         feedbackDatabase'[i].responses)]_vars

\* A scheduled record without responses next to a completed one that took
\* two responses.
C22_Witness ==
  /\ Len(feedbackDatabase) = 2
  /\ \E i, j \in 1..2 :
       /\ feedbackDatabase[i].status = "scheduled"
       /\ feedbackDatabase[i].responses = << >>
       /\ feedbackDatabase[j].status = "completed"
       /\ Len(feedbackDatabase[j].responses) = 2
  /\ call.op = "submitFeedback" /\ call.returned = "true"

\* C23: submitFeedback with an id that matches no record returns false and
\* leaves the store as it was; with a matching id it returns true, appends
\* exactly one response, the one submitted, to the first record with that
\* id, and leaves every other record as it was.
C23_SubmitTouchesOnlyTheMatchingRecord ==
  [][\A feedbackId \in 1..MaxRecords, responses \in ResponseData :
       SubmitFeedback(feedbackId, responses) =>
         LET hits == {i \in 1..Len(feedbackDatabase) :
                        feedbackDatabase[i].id = feedbackId}
         IN IF hits = {}
            THEN /\ call'.returned = "false"
                 /\ feedbackDatabase' = feedbackDatabase
            ELSE /\ call'.returned = "true"
                 /\ Len(feedbackDatabase') = Len(feedbackDatabase)
                 /\ \A i \in 1..Len(feedbackDatabase) :
                      IF i \in hits /\ \A j \in hits : i <= j
                      THEN /\ feedbackDatabase'[i].responses =
                                Append(feedbackDatabase[i].responses, [data |-> responses])
                           /\ feedbackDatabase'[i].id = feedbackDatabase[i].id
                           /\ feedbackDatabase'[i].meetingId = feedbackDatabase[i].meetingId
                      ELSE feedbackDatabase'[i] = feedbackDatabase[i]]_vars

\* A submitFeedback whose id matched none of the records the store holds
\* returned false.
C23_Witness ==
  /\ call.op = "submitFeedback" /\ call.returned = "false" /\ call.caught
  /\ Len(feedbackDatabase) = 1
  /\ feedbackDatabase[1].status = "completed"

\* C24: when processPendingFeedback returns, every completed record is
\* marked processed and the reported remaining count is 0; the reported
\* processed count is the number of records that were completed and not
\* processed before the call, so a call that directly follows another
\* reports processed = 0 and leaves the store as it was.
C24_ProcessingMarksEveryCompletedRecord ==
  [][call'.op = "processPendingFeedback" =>
       /\ \A i \in 1..Len(feedbackDatabase') :
            feedbackDatabase'[i].status = "completed" => Processed(feedbackDatabase'[i])
       /\ call'.remaining = 0
       /\ call'.failed = 0
       /\ call'.processed =
            Cardinality({i \in 1..Len(feedbackDatabase) :
                           /\ feedbackDatabase[i].status = "completed"
                           /\ ~Processed(feedbackDatabase[i])})
       /\ call.op = "processPendingFeedback" =>
            call'.processed = 0 /\ feedbackDatabase' = feedbackDatabase]_vars

\* A call marked the two completed records of the store.
C24_Witness ==
  /\ call.op = "processPendingFeedback"
  /\ call.processed = 2 /\ call.remaining = 0
  /\ Len(feedbackDatabase) = 2
  /\ \A i \in 1..2 : Processed(feedbackDatabase[i])

----------------------------------------------------------------------------
(* Templates and surveys: createCustomTemplate, scheduleFeedback and       *)
(* getFeedbackSurvey, checked under TemplateSpec                           *)

\* Template names as callers write them.
WrittenTemplateNames == {"standard", "Standard", "retro", "Retro"}

\* The questions argument of createCustomTemplate: a non-empty array, or a
\* value the method rejects.
QuestionsInputs == {"questions", "empty"}

\* createCustomTemplate(name, questions): stores the template under the
\* lower-cased name.
CreateCustomTemplate(name, questions) ==
  /\ IF questions # "questions"
     THEN /\ call' = [Returned("createCustomTemplate", "false") EXCEPT !.caught = TRUE]
          /\ UNCHANGED surveyTemplates
     ELSE /\ surveyTemplates' = surveyTemplates \cup {ToLowerCase(name)}
          /\ call' = Returned("createCustomTemplate", "true")
  /\ UNCHANGED <<feedbackDatabase, aggregation>>

\* getFeedbackSurvey(feedbackId): the survey of the record, or null when
\* the record or its template is not found.  questions names the template
\* whose questions are returned.
GetFeedbackSurvey(feedbackId) ==
  /\ LET feedbackIndex == FindIndex(feedbackDatabase, feedbackId)
         found == /\ feedbackIndex # 0
                  /\ feedbackDatabase[feedbackIndex].template \in surveyTemplates
     IN call' = [Returned("getFeedbackSurvey", IF found THEN "object" ELSE Null)
                   EXCEPT !.caught = ~found]
                @@ [feedbackId |-> feedbackId,
                    questions |-> IF found
                                  THEN feedbackDatabase[feedbackIndex].template
                                  ELSE Undefined]
  /\ UNCHANGED <<feedbackDatabase, surveyTemplates, aggregation>>

TemplateNext ==
  \/ Initialize
  \/ \E name \in WrittenTemplateNames, questions \in QuestionsInputs :
       CreateCustomTemplate(name, questions)
  \/ \E meeting \in ProcessingMeetings, templateName \in WrittenTemplateNames :
       ScheduleFeedback(meeting, templateName)
  \/ \E feedbackId \in 1..MaxRecords : GetFeedbackSurvey(feedbackId)

TemplateSpec == Init /\ [][TemplateNext]_vars

\* C21: whenever scheduleFeedback succeeded for a template name, in any
\* letter case, getFeedbackSurvey on the id of the record it stored returns
\* the questions of that template and not null.
C21_ScheduledSurveyIsReturned ==
  call.op = "getFeedbackSurvey" =>
    \A i \in 1..Len(feedbackDatabase) :
      feedbackDatabase[i].id = call.feedbackId =>
        /\ call.returned = "object"
        /\ call.questions = ToLowerCase(feedbackDatabase[i].template)

----------------------------------------------------------------------------
(* sendFeedbackNotification, checked under NotificationSpec                *)

\* The channels in the order sendFeedbackNotification tests them.
Channels == <<"email", "slack", "teams", "calendar">>

ChannelSet == {Channels[i] : i \in DOMAIN Channels}

\* this.notificationChannels as the constructor sets it.
DefaultChannels == {"email", "calendar"}

\* The promise a send method returns when it is called: the method reads
\* meeting.title before its first await, so with no meeting the promise is
\* rejected from the start; otherwise it is pending until its timer fires.
StartedSend(meetingPresent) == IF meetingPresent THEN "pending" ELSE "rejected"

\* PromiseAll that settles as soon as one send has completed.
PromiseAny(sends) ==
  IF \E c \in ChannelSet : sends[c] = "rejected" THEN "rejected"
  ELSE IF \E c \in ChannelSet : sends[c] = "fulfilled" THEN "fulfilled"
  ELSE IF \A c \in ChannelSet : sends[c] = "none" THEN "fulfilled"
  ELSE "pending"

\* Promise.all(channels): rejected once one of the sends is rejected,
\* fulfilled once all of them are, pending until then.
PromiseAll(sends) ==
  IF \E c \in ChannelSet : sends[c] = "rejected" THEN "rejected"
  ELSE IF \A c \in ChannelSet : sends[c] \in {"none", "fulfilled"} THEN "fulfilled"
  ELSE "pending"

\* A call of sendFeedbackNotification(meeting, feedbackId) that has not run
\* yet, on an object whose notificationChannels enables the given channels.
NotificationCall(notificationChannels, meetingPresent) ==
  [op |-> "sendFeedbackNotification", pc |-> "called",
   notificationChannels |-> notificationChannels, meetingPresent |-> meetingPresent,
   sends |-> [c \in ChannelSet |-> "none"],
   returned |-> Undefined, raised |-> FALSE]

NotificationInit ==
  /\ feedbackDatabase = << >>
  /\ surveyTemplates = {}
  /\ aggregation = NotAggregating
  /\ \E notificationChannels \in SUBSET ChannelSet, meetingPresent \in BOOLEAN :
       call = NotificationCall(notificationChannels, meetingPresent)

\* The synchronous part up to the await: one send is started for each
\* enabled channel.
StartSends ==
  /\ call.pc = "called"
  /\ call' = [call EXCEPT
       !.pc = "await",
       !.sends = [c \in ChannelSet |->
                    IF c \in call.notificationChannels
                    THEN StartedSend(call.meetingPresent) ELSE "none"]]
  /\ UNCHANGED <<feedbackDatabase, surveyTemplates, aggregation>>

\* The timer of a pending send fires and the send returns true.
SendCompletes(channel) ==
  /\ call.pc \in {"await", "returned"}
  /\ call.sends[channel] = "pending"
  /\ call' = [call EXCEPT !.sends[channel] = "fulfilled"]
  /\ UNCHANGED <<feedbackDatabase, surveyTemplates, aggregation>>

\* await Promise.all(channels) settles: return true, or the catch block
\* and return false.
NotificationReturns ==
  /\ call.pc = "await"
  /\ PromiseAll(call.sends) # "pending"
  /\ call' = [call EXCEPT
       !.pc = "returned",
       !.returned = IF PromiseAll(call.sends) = "fulfilled" THEN "true" ELSE "false"]
  /\ UNCHANGED <<feedbackDatabase, surveyTemplates, aggregation>>

NotificationNext ==
  \/ StartSends
  \/ \E channel \in ChannelSet : SendCompletes(channel)
  \/ NotificationReturns

NotificationSpec == NotificationInit /\ [][NotificationNext]_vars

\* The channels a send was started on.
Started == {c \in ChannelSet : call.sends[c] # "none"}

\* C25: sendFeedbackNotification starts a send on exactly the enabled
\* channels, all of them before it awaits; it returns true only when every
\* started send has completed, and when one of them has failed it returns
\* false and raises nothing.
C25_NotifiesEnabledChannelsAndWaitsForAll ==
  /\ call.pc = "called" => Started = {}
  /\ call.pc \in {"await", "returned"} => Started = call.notificationChannels
  /\ call.returned = "true" => \A c \in Started : call.sends[c] = "fulfilled"
  /\ (call.pc = "returned" /\ \E c \in Started : call.sends[c] = "rejected") =>
       call.returned = "false"
  /\ call.pc = "returned" => call.returned \in {"true", "false"}
  /\ ~call.raised

\* With the default channels the call returned true after the email and the
\* calendar send had both completed.
C25_Witness ==
  /\ call.pc = "returned" /\ call.returned = "true"
  /\ call.notificationChannels = DefaultChannels
  /\ Started = DefaultChannels
  /\ \A c \in DefaultChannels : call.sends[c] = "fulfilled"

----------------------------------------------------------------------------
(* The calendar routes of the API and CalendarIntegration.authenticate,    *)
(* checked under CalendarSpec.  call holds the state of the API module:    *)
(* calendarIntegration is the number of the instance the module variable   *)
(* refers to (0 for null), isAuthenticated the flag of every instance      *)
(* created so far, authenticating the instances whose authenticate is      *)
(* waiting for its timer, pending the gated requests waiting for their     *)
(* calendar call, response the response sent last.                         *)

MaxAuthRequests == 2
MaxInFlight == 2

GatedRoutes ==
  {"GET /api/meetings/upcoming", "POST /api/meetings/suggest-decline",
   "POST /api/meetings/auto-decline", "GET /api/calendar/stats"}

\* The routes that read a meeting from the body.
DeclineRoutes ==
  {"POST /api/meetings/suggest-decline", "POST /api/meetings/auto-decline"}

\* calendarType of an auth request: a string, or null (type.toLowerCase()
\* throws).
CalendarTypes == {"google", "outlook", Null}

\* Gate that only tests that an integration exists.
GateExistsOnly(api) == api.calendarIntegration # 0

\* The test the gated routes start with, negated:
\* !calendarIntegration || !calendarIntegration.isAuthenticated
Gate(api) ==
  /\ api.calendarIntegration # 0
  /\ api.isAuthenticated[api.calendarIntegration]

\* What a gated request finds when it is handled: whether an integration
\* exists, whether that integration is authenticated, and whether any
\* integration has been authenticated so far.
Handled(api) ==
  [exists |-> api.calendarIntegration # 0,
   authenticated |-> /\ api.calendarIntegration # 0
                     /\ api.isAuthenticated[api.calendarIntegration],
   everAuthenticated |-> \E i \in 1..Len(api.isAuthenticated) : api.isAuthenticated[i]]

\* Every value Handled can take.
HandledValues == [exists : BOOLEAN, authenticated : BOOLEAN, everAuthenticated : BOOLEAN]

NotHandled == [exists |-> FALSE, authenticated |-> FALSE, everAuthenticated |-> FALSE]

\* A response: res.json(...) or res.status(status).json(...).
Response(route, status, message, valid, handled) ==
  [route |-> route, status |-> status, success |-> status = 200,
   message |-> message, valid |-> valid, handled |-> handled]

CalendarInit ==
  /\ feedbackDatabase = << >>
  /\ surveyTemplates = {}
  /\ aggregation = NotAggregating
  /\ call = [op |-> "listen", calendarIntegration |-> 0, isAuthenticated |-> << >>,
             authenticating |-> {}, pending |-> {},
             response |-> Response("none", 0, "", TRUE, NotHandled)]

\* POST /api/calendar/auth up to the await: the module variable is set to a
\* new, unauthenticated integration and authenticate starts its timer.
AuthRequest(calendarType) ==
  /\ Len(call.isAuthenticated) < MaxAuthRequests
  /\ call' =
       IF calendarType = Null
       THEN [call EXCEPT
               !.op = "POST /api/calendar/auth",
               !.response = Response("POST /api/calendar/auth", 500, "TypeError",
                                     FALSE, NotHandled)]
       ELSE [call EXCEPT
               !.op = "POST /api/calendar/auth",
               !.calendarIntegration = Len(call.isAuthenticated) + 1,
               !.isAuthenticated = Append(@, FALSE),
               !.authenticating = @ \cup {Len(call.isAuthenticated) + 1}]
  /\ UNCHANGED <<feedbackDatabase, surveyTemplates, aggregation>>

\* The timer of authenticate fires: the instance becomes authenticated,
\* authenticate returns true and the route answers.
AuthCompletes(instance) ==
  /\ instance \in call.authenticating
  /\ call' = [call EXCEPT
       !.op = "authenticate",
       !.isAuthenticated[instance] = TRUE,
       !.authenticating = @ \ {instance},
       !.response = Response("POST /api/calendar/auth", 200,
                             "calendar connected successfully", TRUE, NotHandled)]
  /\ UNCHANGED <<feedbackDatabase, surveyTemplates, aggregation>>

\* A gated route up to its await: the gate, the test of the body, and the
\* call of the integration's method, which tests this.isAuthenticated.
GatedRequest(route, meetingPresent) ==
  /\ Cardinality(call.pending) < MaxInFlight
  /\ LET valid == route \in DeclineRoutes => meetingPresent
         fails(message) ==
           [call EXCEPT !.op = route,
                        !.response = Response(route, 500, message, valid, Handled(call))]
     IN call' =
          IF ~Gate(call) THEN fails("Calendar not authenticated")
          ELSE IF ~valid THEN fails("Invalid meeting data")
          ELSE IF ~call.isAuthenticated[call.calendarIntegration]
          THEN fails("Not authenticated with calendar service")
          ELSE [call EXCEPT
                  !.op = route,
                  !.pending = @ \cup {[route |-> route, handled |-> Handled(call)]}]
  /\ UNCHANGED <<feedbackDatabase, surveyTemplates, aggregation>>

\* The calendar call of a pending gated request returns and the route
\* answers with success.
GatedCompletes(request) ==
  /\ request \in call.pending
  /\ call' = [call EXCEPT
       !.op = "res.json",
       !.pending = @ \ {request},
       !.response = Response(request.route, 200, "", TRUE, request.handled)]
  /\ UNCHANGED <<feedbackDatabase, surveyTemplates, aggregation>>

CalendarNext ==
  \/ \E calendarType \in CalendarTypes : AuthRequest(calendarType)
  \/ \E instance \in 1..MaxAuthRequests : AuthCompletes(instance)
  \/ \E route \in GatedRoutes, meetingPresent \in BOOLEAN :
       GatedRequest(route, meetingPresent)
  \/ \E route \in GatedRoutes, handled \in HandledValues :
       GatedCompletes([route |-> route, handled |-> handled])

CalendarSpec == CalendarInit /\ [][CalendarNext]_vars

\* The response sent last answers a gated request.
GatedResponse == call.response.route \in GatedRoutes

\* C26: a gated request returns success only when, at the time it was
\* handled, a calendar integration existed and its authenticate had
\* completed successfully; a request handled without one fails with the
\* 'Calendar not authenticated' error.
C26_GatedSuccessNeedsAuthentication ==
  GatedResponse =>
    /\ call.response.success =>
         call.response.handled.exists /\ call.response.handled.authenticated
    /\ ~(call.response.handled.exists /\ call.response.handled.authenticated) =>
         /\ ~call.response.success
         /\ call.response.message = "Calendar not authenticated"

\* A gated request was refused while the only integration was still
\* authenticating.
C26_Witness ==
  /\ GatedResponse
  /\ call.response.handled.exists /\ ~call.response.handled.authenticated
  /\ ~call.response.success
  /\ call.response.message = "Calendar not authenticated"
  /\ call.authenticating # {}

\* C27: once a calendar has been authenticated, every valid gated request
\* succeeds, whatever auth requests arrive later: a re-authentication in
\* progress never makes a gated request find an unauthenticated
\* integration.
C27_ReauthenticationKeepsGateOpen ==
  (GatedResponse /\ call.response.valid /\ call.response.handled.everAuthenticated)
    => /\ call.response.success
       /\ call.response.handled.authenticated

====
